---- MODULE Spec2Model ----
(***************************************************************************)
(* feed-them: the document store of src/feedem/db.py (Document, Index, DB) *)
(* over a git working tree, and the commands of src/feedem/commands that   *)
(* create and look up documents.                                           *)
(*                                                                         *)
(* A string is a sequence of characters; a character is written as a TLA+  *)
(* string ("s", "S_CARON", ...).  A text (the content of a .yml file) is a *)
(* sequence of lines; YAML.load and YAML.dump are the operators load and   *)
(* dump below.  The git repository is the working tree `file`, the staging *)
(* area `staged`, the committed tree `head` and the commit `log`.          *)
(***************************************************************************)
EXTENDS Naturals, Sequences, FiniteSets, TLC

\* ----------------------------------------------------------------- bounds
\* How many document ids uuid4 hands out.
MaxDocs == 2
\* Cap on the commits a run of the document interface may create.
MaxCommits == 3

\* ---------------------------------------------------------------- strings
IdDigits == <<"1", "2", "3", "4", "5", "6">>

\* uuid.uuid4().hex: the i-th id handed out.
DocId(i) == <<"#", IdDigits[i]>>

DocIds == {DocId(i) : i \in 1..MaxDocs}

\* Index.__init__: the catalog is the document with id 'index'.
IndexId == <<"index">>

Collections == {"recipes", "menus"}

\* A falsy argument (None or ''): `if name:` / `if did:` skip it.
NoArg == <<>>

\* Titles a document may carry: plain ASCII, with a diacritic, with a
\* character that transliterates to two letters, and two ASCII letters.
Titles == {<<"s">>, <<"S_CARON">>, <<"ESZETT">>}

\* unidecode's table for one character.
Translit(c) ==
    CASE c = "S_CARON" -> <<"s">>
      [] c = "ESZETT" -> <<"s", "s">>
      [] OTHER -> <<c>>

RECURSIVE unidecode(_)
unidecode(s) ==
    IF s = <<>> THEN <<>> ELSE Translit(Head(s)) \o unidecode(Tail(s))

\* ------------------------------------------------------------------- YAML
\* A line `key: value`; canon tells whether it is written the way YAML.dump
\* writes it (indentation, quoting) or some other way the parser accepts.
Entry(k, v, canon) == [kind |-> "entry", key |-> k, val |-> v, canon |-> canon]

\* A comment line.
CommentLine == [kind |-> "comment", key |-> "", val |-> <<>>, canon |-> FALSE]

\* The line `{}`: an empty mapping in flow style.
FlowLine == [kind |-> "flow", key |-> "", val |-> <<>>, canon |-> TRUE]

\* A line the YAML parser rejects.
BrokenLine == [kind |-> "broken", key |-> "", val |-> <<>>, canon |-> FALSE]

\* The value of `key:` and of `key: ~`: YAML's null, None once loaded.
Null == <<"~">>

\* Python's None, and a mapping with its items in order.
NoneData == [none |-> TRUE, items |-> <<>>]

Mapping(items) == [none |-> FALSE, items |-> items]

IsEntry(line) == line.kind = "entry"

\* YAML.load: a text without any node is None, `{}` is the empty mapping,
\* otherwise the mapping of the entries in order; the style is dropped.
load(text) ==
    LET entries == SelectSeq(text, IsEntry)
    IN  IF entries # <<>>
        THEN Mapping([i \in 1..Len(entries) |-> <<entries[i].key, entries[i].val>>])
        ELSE IF \E i \in 1..Len(text) : text[i].kind = "flow"
             THEN Mapping(<<>>)
             ELSE NoneData

\* YAML.dump of a mapping: `{}` when empty, else one canonical line per item.
dump(data) ==
    IF data.items = <<>>
    THEN <<FlowLine>>
    ELSE [i \in 1..Len(data.items) |-> Entry(data.items[i][1], data.items[i][2], TRUE)]

HasKey(data, k) == \E i \in 1..Len(data.items) : data.items[i][1] = k

ValueOf(data, k) ==
    data.items[CHOOSE i \in 1..Len(data.items) : data.items[i][1] = k][2]

\* data[k] = v on a mapping: in place when the key exists, appended otherwise.
Assign(data, k, v) ==
    IF HasKey(data, k)
    THEN Mapping([i \in 1..Len(data.items) |->
                     IF data.items[i][1] = k THEN <<k, v>> ELSE data.items[i]])
    ELSE Mapping(Append(data.items, <<k, v>>))

\* The values a caller assigns to a field.
FieldValues == {<<"s">>, <<"S_CARON">>}

\* The texts a caller hands to the raw setter: empty, a comment only, `{}`,
\* and a title written the canonical way or another way.
RawTexts ==
    {<<>>, <<CommentLine>>, <<FlowLine>>,
     <<Entry("title", <<"s">>, TRUE)>>, <<Entry("title", <<"s">>, FALSE)>>,
     <<Entry("title", <<"S_CARON">>, TRUE)>>}

\* ---------------------------------------------------------------- state
VARIABLES
    repo,        \* the store directory exists and `git init` has run in it
    file,        \* working tree: document id -> text of <id>.yml
    staged,      \* git index: document id -> staged text
    head,        \* tree of the last commit
    log,         \* the commits, oldest first
    dbIndex,     \* per store instance: DB._index, the cached Index document
    doc,         \* a Document object held by a caller
    lastOp,      \* the last call made and what it returned
    created,     \* the new-document operations that ran to their end
    interrupted  \* a new-document operation was cut short

\* The unit registry and the scaling of a recipe.
VARIABLES
    unitDefs,    \* units.yml: the unit definitions, in file order
    UNITS,       \* the registry: symbol or alias -> the Unit object (its symbol)
    unitObj,     \* the Unit objects: symbol -> aliases, raising, lowering
    amount,      \* the Amount object a caller or the scale loop holds
    recipeFile,  \* the parsed content of the file of the recipe being scaled
    recipe,      \* the Recipe document: its cached data
    pc,          \* where Recipe.scale stands
    call,        \* the last call on units, amounts or the recipe and its result
    candidate,   \* the data an editor session hands to the validator
    session      \* the edit or new-document command that is running

disk == <<repo, file, staged, head, log>>

store == <<repo, file, staged, head, log, dbIndex, doc, lastOp, created, interrupted>>

kitchen ==
    <<unitDefs, UNITS, unitObj, amount, recipeFile, recipe, pc, call, candidate, session>>

vars ==
    <<repo, file, staged, head, log, dbIndex, doc, lastOp, created, interrupted,
      unitDefs, UNITS, unitObj, amount, recipeFile, recipe, pc, call, candidate, session>>

Instances == {"A", "B"}

\* The state of the repository as one value.
Disk == [file |-> file, staged |-> staged, head |-> head, log |-> log]

Put(f, k, v) == [x \in DOMAIN f \cup {k} |-> IF x = k THEN v ELSE f[x]]

\* --------------------------------------------------------------------- git
\* `git status --porcelain` prints nothing: no untracked, unstaged or staged
\* change.
StatusClean(D) == D.file = D.staged /\ D.staged = D.head

\* `git add <id>.yml`: the file is staged as it is in the working tree; a
\* path that matches no file makes git exit 128.
GitAdd(D, id) ==
    IF id \in DOMAIN D.file
    THEN [D |-> [D EXCEPT !.staged = Put(D.staged, id, D.file[id])], ok |-> TRUE]
    ELSE [D |-> D, ok |-> FALSE]

\* `git commit -a -m msg`: every tracked file is staged as it is in the
\* working tree; with nothing staged against the last commit git exits 1
\* and check_call raises CalledProcessError.
GitCommitAll(D, msg) ==
    LET tracked == [f \in DOMAIN D.staged \cap DOMAIN D.file |-> D.file[f]]
        changed == {f \in DOMAIN tracked \cup DOMAIN D.head :
                       \/ f \notin DOMAIN tracked
                       \/ f \notin DOMAIN D.head
                       \/ D.head[f] # tracked[f]}
    IN  IF changed = {}
        THEN [D |-> D, ok |-> FALSE]
        ELSE [D |-> [D EXCEPT !.staged = tracked, !.head = tracked,
                              !.log = Append(D.log, [msg |-> msg, files |-> changed])],
              ok |-> TRUE]

\* ---------------------------------------------------------------- Document
\* Document.__init__: no cached data, not dirty.
NoDocument == [bound |-> FALSE, id |-> <<>>, data |-> NoneData, dirty |-> FALSE]

\* Document.get_document: an object for the id; nothing is read yet.
get_document(id) == [bound |-> TRUE, id |-> id, data |-> NoneData, dirty |-> FALSE]

\* Document.new: an object whose data is the empty mapping; no file yet.
new(id) == [bound |-> TRUE, id |-> id, data |-> Mapping(<<>>), dirty |-> FALSE]

\* Document._commit, cut after n of its steps: 1 is `git status` and
\* `git add`, 2 adds `git commit -a`.
commit_steps(D, id, n) ==
    IF n = 0 \/ StatusClean(D)
    THEN [D |-> D, ok |-> TRUE]
    ELSE LET a == GitAdd(D, id)
         IN  IF n = 1 \/ ~a.ok THEN a ELSE GitCommitAll(a.D, "Transaction commit")

\* Mutant of commit_: no look at `git status`, a commit is made every time.
commit_always(D, id) ==
    LET a == GitAdd(D, id).D
    IN  [D |-> [a EXCEPT !.head = a.staged,
                         !.log = Append(a.log, [msg |-> "Transaction commit", files |-> {id}])],
         ok |-> TRUE]

\* Mutant of commit_: the file is staged and never committed.
commit_add_only(D, id) == commit_steps(D, id, 1)

\* Document._commit.
commit_(D, id) == commit_steps(D, id, 2)

\* Document._get_data: the cached data, or the file parsed when the cache
\* holds None.  parsed tells whether the file was read.
get_data(d, D) ==
    IF ~d.data.none
    THEN [data |-> d.data, parsed |-> FALSE, status |-> "ok"]
    ELSE IF d.id \notin DOMAIN D.file
         THEN [data |-> NoneData, parsed |-> FALSE, status |-> "IOError"]
         ELSE [data |-> load(D.file[d.id]), parsed |-> TRUE, status |-> "ok"]

\* Document.__getitem__.
getitem(d, D, k) ==
    LET g == get_data(d, D)
        st == IF g.status # "ok" THEN g.status
              ELSE IF g.data.none THEN "TypeError"
              ELSE IF ~HasKey(g.data, k) THEN "KeyError"
              ELSE "ok"
    IN  [doc |-> [d EXCEPT !.data = g.data],
         status |-> st,
         val |-> IF st = "ok" THEN ValueOf(g.data, k) ELSE <<>>,
         parsed |-> g.parsed]

\* Mutant of setitem: the assignment marks the document dirty.
setitem_dirty(d, D, k, v) ==
    LET g == get_data(d, D)
        st == IF g.status # "ok" THEN g.status
              ELSE IF g.data.none THEN "TypeError"
              ELSE "ok"
    IN  [doc |-> [d EXCEPT !.data = IF st = "ok" THEN Assign(g.data, k, v) ELSE g.data,
                           !.dirty = (st = "ok")],
         status |-> st,
         parsed |-> g.parsed]

\* Document.__setitem__: the assignment goes to the cached mapping only.
setitem(d, D, k, v) ==
    LET g == get_data(d, D)
        st == IF g.status # "ok" THEN g.status
              ELSE IF g.data.none THEN "TypeError"
              ELSE "ok"
    IN  [doc |-> [d EXCEPT !.data = IF st = "ok" THEN Assign(g.data, k, v) ELSE g.data],
         status |-> st,
         parsed |-> g.parsed]

\* Document._set_raw, cut after n of its steps: 1 is the file write, 2 adds
\* `git status` and `git add`, 3 adds `git commit` and `self.data = None`.
\* A failing commit raises before the cache is cleared.
set_raw_steps(d, D, text, n) ==
    LET D1 == [D EXCEPT !.file = Put(D.file, d.id, text)]
        c == commit_(D1, d.id)
        p == commit_steps(D1, d.id, n - 1)
    IN  IF n < 3
        THEN [doc |-> d, D |-> p.D, status |-> "interrupted"]
        ELSE IF c.ok
             THEN [doc |-> [d EXCEPT !.data = NoneData], D |-> c.D, status |-> "ok"]
             ELSE [doc |-> d, D |-> c.D, status |-> "CalledProcessError"]

\* Mutant of set_raw: the cached data survives the write.
set_raw_keep(d, D, text) == [set_raw_steps(d, D, text, 3) EXCEPT !.doc = d]

\* Document._set_raw.
set_raw(d, D, text) == set_raw_steps(d, D, text, 3)

\* Document.save, cut after n of its steps: 1 is dump_yaml, 2 adds
\* `git status` and `git add`, 3 adds `git commit` and `self.dirty = False`.
save_steps(d, D, force, n) ==
    IF ~d.dirty /\ ~force
    THEN [doc |-> d, D |-> D, status |-> "ok", wrote |-> FALSE]
    ELSE IF d.data.none
         THEN [doc |-> d, D |-> D, status |-> "AssertionError", wrote |-> FALSE]
         ELSE LET D1 == [D EXCEPT !.file = Put(D.file, d.id, dump(d.data))]
                  c == commit_(D1, d.id)
                  p == commit_steps(D1, d.id, n - 1)
              IN  IF n < 3
                  THEN [doc |-> d, D |-> p.D, status |-> "interrupted", wrote |-> TRUE]
                  ELSE IF c.ok
                       THEN [doc |-> [d EXCEPT !.dirty = FALSE], D |-> c.D,
                             status |-> "ok", wrote |-> TRUE]
                       ELSE [doc |-> d, D |-> c.D,
                             status |-> "CalledProcessError", wrote |-> TRUE]

\* Document.save.
save(d, D, force) == save_steps(d, D, force, 3)

\* ----------------------------------------------------------------- numbers
\* A float is kept as the exact fraction <<n, d>> in lowest terms.
RECURSIVE GCD(_, _)
GCD(a, b) == IF b = 0 THEN a ELSE GCD(b, a % b)

Rat(n, d) == <<n \div GCD(n, d), d \div GCD(n, d)>>

\* float(n)
Float(n) == <<n, 1>>

Mul(x, y) == Rat(x[1] * y[1], x[2] * y[2])

Div(x, y) == Rat(x[1] * y[2], x[2] * y[1])

\* ---------------------------------------------------------- units, amounts
\* The value of a unit's raising or lowering attribute: None, the mapping
\* {'unit': name, 'C': factor} read from units.yml, or the tuple
\* (Unit, factor) that the second loop of load_units puts in its place.
NoLink == [kind |-> "None", unit |-> "", C |-> <<0, 1>>]

Named(name, c) == [kind |-> "dict", unit |-> name, C |-> c]

Wired(symbol, c) == [kind |-> "tuple", unit |-> symbol, C |-> c]

\* One entry of units.yml: symbol -> {aliases, raise, lower}.
Definition(symbol, aliases, up, down) ==
    [symbol |-> symbol, aliases |-> aliases, raise |-> up, lower |-> down]

\* How many grams a weight unit is.
Weight(u) ==
    CASE u \in {"g", "gram"} -> 1
      [] u = "dkg" -> 10
      [] u = "kg" -> 1000

\* The factor a units.yml gives for the conversion from u to t.
Factor(u, t) == Rat(Weight(u), Weight(t))

Link(u, t) == IF t = "" THEN NoLink ELSE Named(t, Factor(u, t))

\* The raise targets a units.yml gives to each weight unit ("" for none).
RaiseTargets == [g |-> {"", "dkg", "kg"}, dkg |-> {"", "kg", "g"}, kg |-> {"", "g"}]

Reverse(s) == [i \in 1..Len(s) |-> s[Len(s) + 1 - i]]

\* A units.yml: the weight units with their raise links, with or without
\* the lower links of the chain kg -> dkg -> g, with or without an alias of
\* g (which the lower link of dkg then names), and the unit pcs.
WeightDefs(rg, rd, rk, low, alias) ==
    <<Definition("g", IF alias THEN <<"gram">> ELSE <<>>, Link("g", rg), NoLink),
      Definition("dkg", <<>>, Link("dkg", rd),
                 IF low THEN Link("dkg", IF alias THEN "gram" ELSE "g") ELSE NoLink),
      Definition("kg", <<>>, Link("kg", rk), IF low THEN Link("kg", "dkg") ELSE NoLink),
      Definition("pcs", <<>>, NoLink, NoLink)>>

UnitFiles ==
    {IF rev THEN Reverse(WeightDefs(rg, rd, rk, low, alias))
            ELSE WeightDefs(rg, rd, rk, low, alias) :
        rg \in RaiseTargets["g"], rd \in RaiseTargets["dkg"], rk \in RaiseTargets["kg"],
        low \in BOOLEAN, alias \in BOOLEAN, rev \in BOOLEAN}

\* UNITS = {} and no Unit object.
EmptyRegistry == [UNITS |-> <<>>, obj |-> <<>>]

Names(seq) == {seq[i] : i \in 1..Len(seq)}

\* Unit.__init__ and the first loop of load_units: one Unit per definition,
\* entered in UNITS under its symbol and each alias.
RECURSIVE create(_, _)
create(defs, reg) ==
    IF defs = <<>>
    THEN reg
    ELSE LET d == Head(defs)
             aliases == <<d.symbol>> \o d.aliases
             o == [symbol |-> d.symbol, aliases |-> aliases,
                   raising |-> d.raise, lowering |-> d.lower]
             U == [n \in DOMAIN reg.UNITS \cup Names(aliases) |->
                      IF n \in Names(aliases) THEN d.symbol ELSE reg.UNITS[n]]
         IN  create(Tail(defs), [UNITS |-> U, obj |-> Put(reg.obj, d.symbol, o)])

\* (UNITS[link['unit']], link['C']) for a link that is not None.
wire_link(reg, link) ==
    IF link.kind = "None" THEN [status |-> "ok", link |-> link]
    ELSE IF link.kind = "tuple" THEN [status |-> "TypeError", link |-> link]
    ELSE IF link.unit \notin DOMAIN reg.UNITS THEN [status |-> "KeyError", link |-> link]
    ELSE [status |-> "ok", link |-> Wired(reg.UNITS[link.unit], link.C)]

\* The second loop of load_units over the keys of UNITS in the order the
\* dict yields them.
RECURSIVE wire(_, _)
wire(order, reg) ==
    IF order = <<>>
    THEN [reg |-> reg, status |-> "ok"]
    ELSE LET s == reg.UNITS[Head(order)]
             r == wire_link(reg, reg.obj[s].raising)
             reg1 == [reg EXCEPT !.obj[s].raising = r.link]
             l == wire_link(reg1, reg1.obj[s].lowering)
             reg2 == [reg1 EXCEPT !.obj[s].lowering = l.link]
         IN  IF r.status # "ok" THEN [reg |-> reg, status |-> r.status]
             ELSE IF l.status # "ok" THEN [reg |-> reg1, status |-> l.status]
             ELSE wire(Tail(order), reg2)

\* The orders in which a dict may yield its keys.
Orders(keys) ==
    {o \in [1..Cardinality(keys) -> keys] : \A i, j \in DOMAIN o : i # j => o[i] # o[j]}

\* load_units on the definitions, the keys of UNITS coming in the given order.
load_units(defs, order) == wire(order, create(defs, EmptyRegistry))

\* No Amount object.
NoAmount == [amount |-> <<0, 1>>, unit |-> ""]

\* Amount(v, unit)
Amount(v, u) == [amount |-> v, unit |-> u]

\* Unit.can_be_raised / Amount.can_be_raised
can_be_raised(a, obj) == obj[a.unit].raising.kind # "None"

\* Unit.can_be_lowered / Amount.can_be_lowered
can_be_lowered(a, obj) == obj[a.unit].lowering.kind # "None"

\* Mutant of raise_: the Amount itself is converted and returned.
raise_in_place(a, obj) ==
    IF ~can_be_raised(a, obj)
    THEN [status |-> "AssertionError", result |-> NoAmount, self |-> a]
    ELSE LET n == Amount(Mul(a.amount, obj[a.unit].raising.C), obj[a.unit].raising.unit)
         IN  [status |-> "ok", result |-> n, self |-> n]

\* Mutant of raise_: the factor of the link is applied twice.
raise_twice(a, obj) ==
    IF ~can_be_raised(a, obj)
    THEN [status |-> "AssertionError", result |-> NoAmount, self |-> a]
    ELSE [status |-> "ok",
          result |-> Amount(Mul(Mul(a.amount, obj[a.unit].raising.C), obj[a.unit].raising.C),
                            obj[a.unit].raising.unit),
          self |-> a]

\* Amount.raise_ / Unit.raise_: a new Amount; self is the Amount called on.
raise_(a, obj) ==
    IF ~can_be_raised(a, obj)
    THEN [status |-> "AssertionError", result |-> NoAmount, self |-> a]
    ELSE [status |-> "ok",
          result |-> Amount(Mul(a.amount, obj[a.unit].raising.C), obj[a.unit].raising.unit),
          self |-> a]

\* Amount.lower / Unit.lower.
lower(a, obj) ==
    IF ~can_be_lowered(a, obj)
    THEN [status |-> "AssertionError", result |-> NoAmount, self |-> a]
    ELSE [status |-> "ok",
          result |-> Amount(Mul(a.amount, obj[a.unit].lowering.C), obj[a.unit].lowering.unit),
          self |-> a]

\* ------------------------------------------------------------------- calls
\* The record of a call: its name, the call before it, its arguments and
\* what it returned.
NoOp ==
    [name |-> "none", after |-> "none", inst |-> "", coll |-> "", key |-> "",
     arg |-> <<>>, did |-> <<>>, made |-> 0, force |-> FALSE, status |-> "", val |-> <<>>,
     parsed |-> FALSE, wrote |-> FALSE]

\* A call on the Document interface; after is the call made before it.
Op(name) == [NoOp EXCEPT !.name = name, !.after = lastOp.name]

\* A command on the store through instance s.
StoreOp(name, s) == [NoOp EXCEPT !.name = name, !.inst = s]

SetDisk(D) ==
    /\ file' = D.file
    /\ staged' = D.staged
    /\ head' = D.head
    /\ log' = D.log

\* Data as jsonschema sees it: its type and, for an object, the type of the
\* value of each key, "absent" for a key it does not have.
Json(type, title, tags) == [type |-> type, props |-> [title |-> title, tags |-> tags]]

\* No data yet.
NoCandidate == Json("", "absent", "absent")

\* No command is waiting for its user.
NoSession ==
    [cmd |-> "none", inst |-> "", coll |-> "", did |-> <<>>, text |-> <<>>,
     at |-> "idle", retried |-> FALSE]

\* The record of a call on units, amounts or the recipe: its name, how it
\* ended, the Amount it returned and the truth value it returned.
NoCall == [name |-> "none", status |-> "", result |-> NoAmount, flag |-> FALSE]

Call(name, status) == [NoCall EXCEPT !.name = name, !.status = status]

\* Recipe data: None, or portions and the ingredients.  The amount of an
\* ingredient is absent, an integer, a string '<v> <u>' or an Amount object.
NoRecipe == [none |-> TRUE, portions |-> 0, ingredients |-> <<>>]

Ingredient(kind, v, u) == [kind |-> kind, v |-> v, u |-> u]

\* Recipe.scale is not running.
Idle == [at |-> "idle", i |-> 0, adults |-> 0]

\* No store, no document.
StoreInit ==
    /\ repo = FALSE
    /\ file = <<>>
    /\ staged = <<>>
    /\ head = <<>>
    /\ log = <<>>
    /\ dbIndex = [s \in Instances |-> NoDocument]
    /\ doc = NoDocument
    /\ lastOp = NoOp
    /\ created = <<>>
    /\ interrupted = FALSE

\* UNITS = {} as the module is imported; no Amount, no Recipe.
KitchenInit ==
    /\ UNITS = <<>>
    /\ unitObj = <<>>
    /\ amount = NoAmount
    /\ recipeFile = NoRecipe
    /\ recipe = [bound |-> FALSE, data |-> NoRecipe]
    /\ pc = Idle
    /\ call = NoCall
    /\ candidate = NoCandidate
    /\ session = NoSession

Init ==
    /\ StoreInit
    /\ unitDefs = <<>>
    /\ KitchenInit

\* The process starts with some units.yml in its working directory.
InitUnits ==
    /\ StoreInit
    /\ unitDefs \in UnitFiles
    /\ KitchenInit

\* ------------------------------------------------------------ DB.initialize
\* index_data of DB.initialize.
EmptyCatalog == Mapping(<<<<"recipes", <<>>>>, <<"menus", <<>>>>>>)

\* DB.initialize on a directory that is absent or empty: git init, the
\* empty catalog force-saved, then `git add index.yml` and
\* `git commit -a -m 'Initial commit'`.
\* Mutant of initialize: the catalog is saved without force.
initialize_unforced(D) ==
    LET index == [new(IndexId) EXCEPT !.data = EmptyCatalog]
        s == save(index, D, FALSE)
        a == GitAdd(s.D, IndexId)
        c == GitCommitAll(a.D, "Initial commit")
    IN  IF ~a.ok
        THEN [D |-> a.D, status |-> "CalledProcessError"]
        ELSE [D |-> c.D, status |-> IF c.ok THEN "ok" ELSE "CalledProcessError"]

initialize(D) ==
    LET index == [new(IndexId) EXCEPT !.data = EmptyCatalog]
        s == save(index, D, TRUE)
        a == GitAdd(s.D, IndexId)
        c == GitCommitAll(a.D, "Initial commit")
    IN  IF s.status # "ok"
        THEN [D |-> s.D, status |-> s.status]
        ELSE IF ~a.ok
             THEN [D |-> a.D, status |-> "CalledProcessError"]
             ELSE [D |-> c.D, status |-> IF c.ok THEN "ok" ELSE "CalledProcessError"]

Initialize ==
    /\ ~repo
    /\ LET r == initialize(Disk)
       IN  /\ repo' = TRUE
           /\ SetDisk(r.D)
           /\ lastOp' = [StoreOp("initialize", "") EXCEPT !.status = r.status]
    /\ UNCHANGED <<dbIndex, doc, created, interrupted, kitchen>>

\* ------------------------------------------------- the Document interface
\* A caller takes a new Document for an id.
DocNew(id) ==
    /\ repo
    /\ doc' = new(id)
    /\ lastOp' = Op("new")
    /\ UNCHANGED <<disk, dbIndex, created, interrupted, kitchen>>

\* A caller takes the Document of an id, as get_document and find do.
DocGet(id) ==
    /\ repo
    /\ doc' = get_document(id)
    /\ lastOp' = Op("get_document")
    /\ UNCHANGED <<disk, dbIndex, created, interrupted, kitchen>>

\* document[k]
GetField(k) ==
    /\ doc.bound
    /\ LET r == getitem(doc, Disk, k)
       IN  /\ doc' = r.doc
           /\ lastOp' = [Op("get_field") EXCEPT !.key = k, !.status = r.status,
                                                !.val = r.val, !.parsed = r.parsed]
    /\ UNCHANGED <<disk, dbIndex, created, interrupted, kitchen>>

\* document[k] = v
SetField(k, v) ==
    /\ doc.bound
    /\ LET r == setitem(doc, Disk, k, v)
       IN  /\ doc' = r.doc
           /\ lastOp' = [Op("set_field") EXCEPT !.key = k,
                                                !.status = r.status, !.parsed = r.parsed]
    /\ UNCHANGED <<disk, dbIndex, created, interrupted, kitchen>>

\* document.raw = text
WriteRaw(text) ==
    /\ doc.bound
    /\ Len(log) < MaxCommits
    /\ LET r == set_raw(doc, Disk, text)
       IN  /\ doc' = r.doc
           /\ SetDisk(r.D)
           /\ lastOp' = [Op("write_raw") EXCEPT !.status = r.status, !.wrote = TRUE,
                                                !.made = Len(r.D.log) - Len(log)]
    /\ UNCHANGED <<repo, dbIndex, created, interrupted, kitchen>>

\* document.save(force)
Save(force) ==
    /\ doc.bound
    /\ Len(log) < MaxCommits
    /\ LET r == save(doc, Disk, force)
       IN  /\ doc' = r.doc
           /\ SetDisk(r.D)
           /\ lastOp' = [Op("save") EXCEPT !.force = force, !.status = r.status,
                                           !.wrote = r.wrote,
                                           !.made = Len(r.D.log) - Len(log)]
    /\ UNCHANGED <<repo, dbIndex, created, interrupted, kitchen>>

DocKeys == {"title", "tags"}

\* The documents the callers of the Document interface work on.
HandleIds == {DocId(1), DocId(2)}

NextDoc ==
    \/ Initialize
    \/ \E id \in HandleIds : DocNew(id)
    \/ \E id \in HandleIds : DocGet(id)
    \/ \E k \in DocKeys : GetField(k)
    \/ \E v \in FieldValues : SetField("title", v)
    \/ \E text \in RawTexts : WriteRaw(text)
    \/ \E force \in BOOLEAN : Save(force)

SpecDoc == Init /\ [][NextDoc]_vars

\* -------------------------------------------------------------- the store
\* GlobalContext.open_database: the process of instance s opens the store;
\* its DB object starts without a cached Index.
OpenDatabase(s) ==
    /\ repo
    /\ dbIndex' = [dbIndex EXCEPT ![s] = NoDocument]
    /\ lastOp' = StoreOp("open_database", s)
    /\ UNCHANGED <<disk, doc, created, interrupted, kitchen>>

\* DB.index: the cached Index, made on first use.
index(s) == IF dbIndex[s].bound THEN dbIndex[s] ELSE get_document(IndexId)

\* cmd_recipes / cmd_menus through instance s: db.index[coll] is read, which
\* leaves the Index cached in the instance; the rest of the command reads
\* the listed documents and prints a table.
ListDocuments(s, coll) ==
    /\ repo
    /\ LET r == getitem(index(s), Disk, coll)
       IN  /\ dbIndex' = [dbIndex EXCEPT ![s] = r.doc]
           /\ lastOp' = [StoreOp("list", s) EXCEPT !.coll = coll, !.status = r.status]
    /\ UNCHANGED <<disk, doc, created, interrupted, kitchen>>

JsonTypes == {"object", "array", "string", "integer", "null"}

\* Recipe.SCHEMA and Menu.SCHEMA: the type asked of the data and of the
\* properties named.
RecipeSchema == [type |-> "object", properties |-> [title |-> "string"]]

MenuSchema == [type |-> "object", properties |-> <<>>]

SCHEMA(coll) == IF coll = "recipes" THEN RecipeSchema ELSE MenuSchema

\* Document.validate: jsonschema.validate(data, schema), True when it
\* passes, the ValidationError it raises otherwise.
document_validate(data, schema) ==
    IF data.type # schema.type
    THEN [valid |-> FALSE, path |-> <<>>, message |-> "is not of type 'object'"]
    ELSE LET bad == {k \in DOMAIN schema.properties :
                        data.props[k] \notin {"absent", schema.properties[k]}}
         IN  IF bad # {}
             THEN [valid |-> FALSE, path |-> <<CHOOSE k \in bad : TRUE>>,
                   message |-> "is not of type 'string'"]
             ELSE [valid |-> TRUE, path |-> <<>>, message |-> ""]

\* How jsonschema sees the value of key k of a parsed text.
SeenValue(data, k) ==
    IF ~HasKey(data, k)
    THEN "absent"
    ELSE IF ValueOf(data, k) = Null THEN "null" ELSE "string"

\* How jsonschema sees a parsed text: None, or an object whose values are
\* strings or null.
Seen(data) ==
    IF data.none
    THEN Json("null", "absent", "absent")
    ELSE Json("object", SeenValue(data, "title"), SeenValue(data, "tags"))

\* Recipe.validate and Menu.validate on parsed text.
validate(coll, data) == document_validate(Seen(data), SCHEMA(coll)).valid

\* The texts a user leaves in the editor: a title, no title at all, nothing.
EditorTexts ==
    {<<Entry("title", t, FALSE)>> : t \in Titles}
      \cup {<<Entry("tags", <<"s">>, FALSE)>>, <<>>}

\* The loop of Document.find over the catalog list: the first document whose
\* title or common name is the name.
RECURSIVE scan(_, _, _)
scan(D, ids, name) ==
    IF ids = <<>>
    THEN [status |-> "NotFound", val |-> <<>>]
    ELSE LET t == getitem(get_document(Head(ids)), D, "title")
         IN  IF t.status # "ok"
             THEN [status |-> t.status, val |-> <<>>]
             ELSE IF t.val = name \/ unidecode(t.val) = name
                  THEN [status |-> "Found", val |-> Head(ids)]
                  ELSE scan(D, Tail(ids), name)

\* Document.find on the store whose cached Index is idx.
find(D, idx, coll, name, did) ==
    IF name # NoArg
    THEN LET l == getitem(idx, D, coll)
             r == IF l.status # "ok"
                  THEN [status |-> l.status, val |-> <<>>]
                  ELSE scan(D, l.val, name)
         IN  [index |-> l.doc, status |-> r.status, val |-> r.val]
    ELSE IF did # NoArg
         THEN [index |-> idx, status |-> "Found", val |-> did]
         ELSE [index |-> idx, status |-> "NotFound", val |-> <<>>]

\* Recipe.find / Menu.find called through instance s.  The Index object that
\* DB.index made stays cached in the instance.
Find(s, coll, name, did) ==
    /\ repo
    /\ LET r == find(Disk, index(s), coll, name, did)
       IN  /\ dbIndex' = [dbIndex EXCEPT ![s] = IF name # NoArg THEN r.index ELSE @]
           /\ lastOp' = [StoreOp("find", s) EXCEPT !.coll = coll, !.arg = name, !.did = did,
                                                  !.status = r.status, !.val = r.val]
    /\ UNCHANGED <<disk, doc, created, interrupted, kitchen>>

\* cmd_new_document from the text the editor returned on, cut after n of its
\* steps: 1 to 3 are those of `document.raw = document_text`, then the id is
\* appended to the cached catalog list, 4 to 6 are those of
\* index.save(force=True).  An exception ends the command where it is raised.
\* Mutant of new_document_steps: the catalog is saved first, the document
\* file is written after it.
new_document_catalog_first(D, idx, coll, id, text, n) ==
    LET l == getitem(idx, D, coll)
        idx2 == [l.doc EXCEPT !.data = Assign(l.doc.data, coll, Append(l.val, id))]
        v == save_steps(idx2, D, TRUE, IF n < 3 THEN n ELSE 3)
        w == set_raw_steps(new(id), v.D, text, n - 3)
    IN  IF l.status # "ok"
        THEN [D |-> D, index |-> l.doc, status |-> l.status]
        ELSE IF n <= 3
             THEN [D |-> v.D, index |-> v.doc, status |-> v.status]
             ELSE [D |-> w.D, index |-> v.doc, status |-> w.status]

new_document_steps(D, idx, coll, id, text, n) ==
    LET w == set_raw_steps(new(id), D, text, IF n < 3 THEN n ELSE 3)
        l == getitem(idx, w.D, coll)
        idx2 == [l.doc EXCEPT !.data = Assign(l.doc.data, coll, Append(l.val, id))]
        v == save_steps(idx2, w.D, TRUE, n - 3)
    IN  IF n < 3 \/ w.status # "ok"
        THEN [D |-> w.D, index |-> idx, status |-> w.status]
        ELSE IF l.status # "ok"
             THEN [D |-> w.D, index |-> l.doc, status |-> l.status]
             ELSE IF n = 3
                  THEN [D |-> w.D, index |-> idx2, status |-> "interrupted"]
                  ELSE [D |-> v.D, index |-> v.doc, status |-> v.status]

\* Mutant of new_document: the command ends before index.save.
new_document_unsaved(D, idx, coll, id, text) ==
    [new_document_steps(D, idx, coll, id, text, 3) EXCEPT !.status = "ok"]

\* Mutant of new_document: the catalog is read from index.yml anew before
\* the id is appended.
new_document_fresh(D, idx, coll, id, text) ==
    new_document_steps(D, get_document(IndexId), coll, id, text, 6)

\* cmd_new_document.
new_document(D, idx, coll, id, text) == new_document_steps(D, idx, coll, id, text, 6)

\* uuid.uuid4().hex: an id no document has yet.  Ids are interchangeable, so
\* the i-th one handed out is DocId(i).
Issued == Cardinality(DOMAIN file \cap DocIds)

NextId == DocId(Issued + 1)

\* A new-document command run to its end through instance s; the editor loop
\* returns only text that validates.
NewDocument(s, coll, id, text) ==
    /\ repo
    /\ Issued < MaxDocs
    /\ id = NextId
    /\ validate(coll, load(text))
    /\ LET r == new_document(Disk, index(s), coll, id, text)
       IN  /\ SetDisk(r.D)
           /\ dbIndex' = [dbIndex EXCEPT ![s] = r.index]
           /\ created' = IF r.status = "ok"
                         THEN Append(created, [inst |-> s, coll |-> coll, id |-> id])
                         ELSE created
           /\ lastOp' = [StoreOp("new_document", s) EXCEPT !.coll = coll, !.did = id,
                                                          !.status = r.status]
    /\ UNCHANGED <<repo, doc, interrupted, kitchen>>

\* A new-document command whose process is stopped after n steps: what it
\* wrote stays, its DB object is gone.
NewDocumentInterrupted(s, coll, id, text, n) ==
    /\ repo
    /\ Issued < MaxDocs
    /\ id = NextId
    /\ validate(coll, load(text))
    /\ LET r == new_document_steps(Disk, index(s), coll, id, text, n)
       IN  /\ SetDisk(r.D)
           /\ dbIndex' = [dbIndex EXCEPT ![s] = NoDocument]
           /\ lastOp' = [StoreOp("new_document", s) EXCEPT !.coll = coll, !.did = id,
                                                          !.status = "interrupted"]
    /\ interrupted' = TRUE
    /\ UNCHANGED <<repo, doc, created, kitchen>>

\* The editor texts of the runs that look at the catalog only: what a
\* document holds does not reach the catalog.
CatalogTexts == {<<Entry("title", <<"s">>, FALSE)>>, <<>>}

Next ==
    \/ Initialize
    \/ \E s \in Instances : OpenDatabase(s)
    \/ \E s \in Instances, coll \in Collections : ListDocuments(s, coll)
    \/ \E s \in Instances, coll \in Collections, text \in CatalogTexts :
          NewDocument(s, coll, NextId, text)

Spec == Init /\ [][Next]_vars

NextCrash ==
    \/ Initialize
    \/ \E s \in Instances : OpenDatabase(s)
    \/ \E s \in Instances, coll \in Collections : ListDocuments(s, coll)
    \/ \E s \in Instances, coll \in Collections, text \in CatalogTexts :
          NewDocument(s, coll, NextId, text)
    \/ \E s \in Instances, coll \in Collections, text \in CatalogTexts, n \in 1..5 :
          NewDocumentInterrupted(s, coll, NextId, text, n)

SpecCrash == Init /\ [][NextCrash]_vars

\* The names and ids the callers of find pass.
FindNames == {NoArg, <<"s">>, <<"s", "s">>, DocId(1)}

FindIds == {NoArg, DocId(1)}

NextFind ==
    \/ Initialize
    \/ \E coll \in Collections, text \in EditorTexts :
          NewDocument("A", coll, NextId, text)
    \/ \E coll \in Collections, name \in FindNames, did \in FindIds :
          Find("A", coll, name, did)

SpecFind == Init /\ [][NextFind]_vars

\* ------------------------------------------------------ the unit registry
\* load_units has run to its end; an exception in it ends the process.
Loaded == call.name # "none" /\ ~(call.name = "load_units" /\ call.status # "ok")

\* load_units, once, as the process starts.
LoadUnits ==
    /\ call.name = "none"
    /\ unitDefs # <<>>
    /\ \E order \in Orders(DOMAIN create(unitDefs, EmptyRegistry).UNITS) :
          LET r == load_units(unitDefs, order)
          IN  /\ UNITS' = r.reg.UNITS
              /\ unitObj' = r.reg.obj
              /\ call' = Call("load_units", r.status)
    /\ UNCHANGED <<store, candidate, session, unitDefs, amount, recipeFile, recipe, pc>>

\* The quantities a caller makes an Amount of.
AmountValues == {Float(250), Float(400)}

\* Amount(v, UNITS[name])
NewAmount(v, name) ==
    /\ Loaded
    /\ name \in DOMAIN UNITS
    /\ amount' = Amount(v, UNITS[name])
    /\ call' = Call("Amount", "ok")
    /\ UNCHANGED <<store, candidate, session, unitDefs, UNITS, unitObj, recipeFile, recipe, pc>>

\* amount.can_be_raised
CanBeRaised ==
    /\ Loaded
    /\ amount # NoAmount
    /\ call' = [Call("can_be_raised", "ok") EXCEPT !.flag = can_be_raised(amount, unitObj)]
    /\ UNCHANGED <<store, candidate, session, unitDefs, UNITS, unitObj, amount, recipeFile, recipe, pc>>

\* amount.can_be_lowered
CanBeLowered ==
    /\ Loaded
    /\ amount # NoAmount
    /\ call' = [Call("can_be_lowered", "ok") EXCEPT !.flag = can_be_lowered(amount, unitObj)]
    /\ UNCHANGED <<store, candidate, session, unitDefs, UNITS, unitObj, amount, recipeFile, recipe, pc>>

\* amount.raise_()
RaiseOnce ==
    /\ Loaded
    /\ amount # NoAmount
    /\ LET r == raise_(amount, unitObj)
       IN  /\ amount' = r.self
           /\ call' = [Call("raise_", r.status) EXCEPT !.result = r.result]
    /\ UNCHANGED <<store, candidate, session, unitDefs, UNITS, unitObj, recipeFile, recipe, pc>>

\* amount.lower()
LowerOnce ==
    /\ Loaded
    /\ amount # NoAmount
    /\ LET r == lower(amount, unitObj)
       IN  /\ amount' = r.self
           /\ call' = [Call("lower", r.status) EXCEPT !.result = r.result]
    /\ UNCHANGED <<store, candidate, session, unitDefs, UNITS, unitObj, recipeFile, recipe, pc>>

\* The caller goes on with the Amount a conversion returned.
Take ==
    /\ call.name \in {"raise_", "lower"}
    /\ call.status = "ok"
    /\ amount' = call.result
    /\ call' = Call("Amount", "ok")
    /\ UNCHANGED <<store, candidate, session, unitDefs, UNITS, unitObj, recipeFile, recipe, pc>>

NextUnits ==
    \/ LoadUnits
    \/ \E v \in AmountValues, name \in DOMAIN UNITS : NewAmount(v, name)
    \/ CanBeRaised
    \/ CanBeLowered
    \/ RaiseOnce
    \/ LowerOnce
    \/ Take

SpecUnits == InitUnits /\ [][NextUnits]_vars

\* ------------------------------------------------------------ Recipe.scale
\* The units.yml files of the runs that scale a recipe.
ScaleUnitFiles ==
    {WeightDefs(rg, rd, rk, FALSE, FALSE) :
        rg \in RaiseTargets["g"], rd \in RaiseTargets["dkg"], rk \in RaiseTargets["kg"]}

InitScale ==
    /\ StoreInit
    /\ unitDefs \in ScaleUnitFiles
    /\ KitchenInit

\* The amounts an ingredient of a recipe file has: none, the integer 3,
\* '200 g', '250 g'.
IngredientForms ==
    {Ingredient("absent", Float(0), ""), Ingredient("int", Float(3), ""),
     Ingredient("str", Float(200), "g"), Ingredient("str", Float(250), "g")}

\* The recipe files: portions and one or two ingredients.
RecipeFiles ==
    {[none |-> FALSE, portions |-> p, ingredients |-> l] :
        p \in {4, 8},
        l \in {<<a>> : a \in IngredientForms}
                \cup {<<a, b>> : a \in IngredientForms, b \in IngredientForms}}

\* scales['adults'] of the menus.
Adults == {2, 8}

\* No exception has ended the process.
Alive == call.status \in {"ok", "running"}

\* Recipe.find gives the Recipe document of a recipe file; nothing is read.
FindRecipe(content) ==
    /\ Loaded
    /\ ~recipe.bound
    /\ recipeFile' = content
    /\ recipe' = [bound |-> TRUE, data |-> NoRecipe]
    /\ call' = Call("find", "ok")
    /\ UNCHANGED <<store, candidate, session, unitDefs, UNITS, unitObj, amount, pc>>

\* recipe.raw = recipe.raw: the file is written with the text it has and
\* the cached data is dropped, so the next access loads the file again.
Reload ==
    /\ Alive
    /\ recipe.bound
    /\ ~recipe.data.none
    /\ pc.at = "idle"
    /\ recipe' = [recipe EXCEPT !.data = NoRecipe]
    /\ call' = Call("write_raw", "ok")
    /\ UNCHANGED <<store, candidate, session, unitDefs, UNITS, unitObj, amount, recipeFile, pc>>

\* recipe.scale(scales) is called: self['ingredients'] loads the data when
\* none is cached and the loop starts.
ScaleBegin(adults) ==
    /\ Alive
    /\ recipe.bound
    /\ pc.at = "idle"
    /\ recipe' = [recipe EXCEPT !.data = IF @.none THEN recipeFile ELSE @]
    /\ pc' = [at |-> "loop", i |-> 1, adults |-> adults]
    /\ call' = Call("scale", "running")
    /\ UNCHANGED <<store, candidate, session, unitDefs, UNITS, unitObj, amount, recipeFile>>

\* The body of the loop of Recipe.scale up to the raise loop, for an
\* ingredient that has an amount: an integer becomes an Amount in pcs as it
\* is; anything else is split as a string '<v> <u>', which an Amount object
\* does not allow, and is scaled by adults / portions.  raise tells whether
\* the raise loop follows.
convert(ing, portions, adults, U) ==
    IF ing.kind = "int"
    THEN IF "pcs" \notin DOMAIN U
         THEN [status |-> "KeyError", result |-> NoAmount, raise |-> FALSE]
         ELSE [status |-> "ok", result |-> Amount(ing.v, U["pcs"]), raise |-> FALSE]
    ELSE IF ing.kind = "Amount"
         THEN [status |-> "AttributeError", result |-> NoAmount, raise |-> FALSE]
         ELSE IF ing.u \notin DOMAIN U
              THEN [status |-> "KeyError", result |-> NoAmount, raise |-> FALSE]
              ELSE [status |-> "ok",
                    result |-> Amount(Mul(Div(ing.v, Float(portions)), Float(adults)), U[ing.u]),
                    raise |-> TRUE]

\* ingredient['amount'] = amount
StoreAmount(r, i, a) ==
    [r EXCEPT !.data.ingredients[i] = Ingredient("Amount", a.amount, a.unit)]

\* One pass of the loop over the ingredients, up to the raise loop.
ScaleIngredient ==
    /\ pc.at = "loop"
    /\ pc.i <= Len(recipe.data.ingredients)
    /\ LET ing == recipe.data.ingredients[pc.i]
           c == convert(ing, recipe.data.portions, pc.adults, UNITS)
       IN  IF ing.kind = "absent"
           THEN /\ pc' = [pc EXCEPT !.i = @ + 1]
                /\ UNCHANGED <<amount, recipe, call>>
           ELSE IF c.status # "ok"
                THEN /\ pc' = Idle
                     /\ call' = Call("scale", c.status)
                     /\ UNCHANGED <<amount, recipe>>
                ELSE IF c.raise
                     THEN /\ amount' = c.result
                          /\ pc' = [pc EXCEPT !.at = "raise"]
                          /\ UNCHANGED <<recipe, call>>
                     ELSE /\ recipe' = StoreAmount(recipe, pc.i, c.result)
                          /\ pc' = [pc EXCEPT !.i = @ + 1]
                          /\ UNCHANGED <<amount, call>>
    /\ UNCHANGED <<store, candidate, session, unitDefs, UNITS, unitObj, recipeFile>>

\* One test of `while amount.can_be_raised is True` and what follows it:
\* amount = amount.raise_(), or the end of the loop and
\* ingredient['amount'] = amount.
RaiseStep ==
    /\ pc.at = "raise"
    /\ IF can_be_raised(amount, unitObj)
       THEN /\ amount' = raise_(amount, unitObj).result
            /\ UNCHANGED <<recipe, pc>>
       ELSE /\ recipe' = StoreAmount(recipe, pc.i, amount)
            /\ amount' = NoAmount
            /\ pc' = [pc EXCEPT !.at = "loop", !.i = @ + 1]
    /\ UNCHANGED <<store, candidate, session, unitDefs, UNITS, unitObj, recipeFile, call>>

\* The loop over the ingredients is through: scale returns.
ScaleEnd ==
    /\ pc.at = "loop"
    /\ pc.i > Len(recipe.data.ingredients)
    /\ pc' = Idle
    /\ call' = Call("scale", "ok")
    /\ UNCHANGED <<store, candidate, session, unitDefs, UNITS, unitObj, amount, recipeFile, recipe>>

NextScale ==
    \/ LoadUnits
    \/ \E content \in RecipeFiles : FindRecipe(content)
    \/ Reload
    \/ \E adults \in Adults : ScaleBegin(adults)
    \/ ScaleIngredient
    \/ RaiseStep
    \/ ScaleEnd

\* A call of scale, once made, runs on: the interpreter takes its steps.
SpecScale ==
    /\ InitScale
    /\ [][NextScale]_vars
    /\ WF_vars(ScaleIngredient)
    /\ WF_vars(RaiseStep)
    /\ WF_vars(ScaleEnd)

\* -------------------------------------------------------------- validation
\* The data an editor session may leave: every object over the keys
\* title and tags, and data that is no object.
Candidates ==
    {Json("object", a, b) : a \in JsonTypes \cup {"absent"}, b \in JsonTypes \cup {"absent"}}
      \cup {Json(t, "absent", "absent") : t \in JsonTypes \ {"object"}}

\* edit_yaml: the user leaves the editor and the file is loaded.
Edit(data) ==
    /\ candidate' = data
    /\ lastOp' = StoreOp("edit", "")
    /\ UNCHANGED <<disk, dbIndex, doc, created, interrupted,
                   unitDefs, UNITS, unitObj, amount, recipeFile, recipe, pc, call, session>>

\* edit_yaml: validator(data), with Recipe.validate or Menu.validate.
Validate(coll) ==
    /\ candidate # NoCandidate
    /\ LET r == document_validate(candidate, SCHEMA(coll))
       IN  lastOp' = [StoreOp("validate", "") EXCEPT
                         !.coll = coll,
                         !.status = IF r.valid THEN "True" ELSE "ValidationError",
                         !.arg = r.path,
                         !.key = r.message]
    /\ UNCHANGED <<disk, dbIndex, doc, created, interrupted, kitchen>>

NextValidate ==
    \/ \E data \in Candidates : Edit(data)
    \/ \E coll \in Collections : Validate(coll)

SpecValidate == Init /\ [][NextValidate]_vars

\* ------------------------------------------------------- failing commits
\* document.raw = text in which a git call fails after n steps: 1 is the
\* file write, after which `git status` or `git add` exits non-zero, 2 adds
\* `git add`, after which `git commit` exits non-zero.  check_output or
\* check_call raises CalledProcessError out of _set_raw.
WriteRawFailed(text, n) ==
    /\ doc.bound
    /\ Len(log) < MaxCommits
    /\ n = 2 => ~StatusClean([Disk EXCEPT !.file = Put(file, doc.id, text)])
    /\ LET r == set_raw_steps(doc, Disk, text, n)
       IN  /\ doc' = r.doc
           /\ SetDisk(r.D)
           /\ lastOp' = [Op("write_raw") EXCEPT !.status = "CalledProcessError",
                                                !.wrote = TRUE]
    /\ UNCHANGED <<repo, dbIndex, created, interrupted, kitchen>>

\* The texts of the runs with failing commits.
FaultTexts == {<<>>, <<Entry("title", <<"s">>, TRUE)>>, <<Entry("title", <<"S_CARON">>, TRUE)>>}

NextFault ==
    \/ Initialize
    \/ DocNew(DocId(1))
    \/ DocGet(DocId(1))
    \/ GetField("title")
    \/ \E v \in FieldValues : SetField("title", v)
    \/ \E text \in FaultTexts : WriteRaw(text)
    \/ \E text \in FaultTexts, n \in 1..2 : WriteRawFailed(text, n)

SpecFault == Init /\ [][NextFault]_vars

\* ------------------------------------------------- claims on the Document
\* What document[k] gives on data d: the value, or the error Python raises.
Lookup(d, k) ==
    IF d.none THEN [status |-> "TypeError", val |-> <<>>]
    ELSE IF HasKey(d, k) THEN [status |-> "ok", val |-> ValueOf(d, k)]
    ELSE [status |-> "KeyError", val |-> <<>>]

\* C1: the get_field that follows a completed write_raw(newText) returns the
\* value of the key parsed from newText (the file's content after the
\* write), or the error of looking the key up in it; never a cached value.
C1_WriteInvalidation ==
    [][(lastOp.name = "write_raw" /\ lastOp.status = "ok" /\ lastOp'.name = "get_field")
          => LET r == Lookup(load(file[doc.id]), lastOp'.key)
             IN  lastOp'.status = r.status /\ lastOp'.val = r.val]_vars

\* C1 witness: a get_field right after a raw write read the file anew and
\* returned a value.
C1_Witness ==
    /\ lastOp.name = "get_field"
    /\ lastOp.after = "write_raw"
    /\ lastOp.status = "ok"
    /\ lastOp.parsed

\* C2, as claimed: of two consecutive get_field calls on one key, the second
\* returns what the first returned and does not read the file again.
C2_LazyCacheCoherence ==
    [][(lastOp.name = "get_field" /\ lastOp'.name = "get_field" /\ lastOp'.key = lastOp.key)
          => /\ lastOp'.status = lastOp.status
             /\ lastOp'.val = lastOp.val
             /\ ~lastOp'.parsed]_vars

\* C3, as claimed: every save(force=True) writes the file and makes a commit.
C3_ForceSaveAlwaysCommits ==
    (lastOp.name = "save" /\ lastOp.force) => (lastOp.wrote /\ lastOp.made = 1)

\* C3, amended: save(force=True) on a Document without loaded data fails its
\* assertion and changes nothing; on a Document with loaded data it writes
\* the dumped data and, the working tree being otherwise clean, makes one
\* commit when that text differs from the committed one and none when not.
C3_ForceSave ==
    [][(lastOp'.name = "save" /\ lastOp'.force /\ StatusClean(Disk))
          => IF doc.data.none
             THEN /\ lastOp'.status = "AssertionError"
                  /\ ~lastOp'.wrote
                  /\ UNCHANGED disk
             ELSE /\ lastOp'.status = "ok"
                  /\ lastOp'.wrote
                  /\ file' = Put(file, doc.id, dump(doc.data))
                  /\ Len(log') - Len(log) =
                        IF doc.id \in DOMAIN head /\ head[doc.id] = dump(doc.data)
                        THEN 0 ELSE 1
                  /\ head' = file']_vars

\* C3 witness: a forced save wrote the file and made no commit.
C3_Witness ==
    /\ lastOp.name = "save"
    /\ lastOp.force
    /\ lastOp.status = "ok"
    /\ lastOp.wrote
    /\ lastOp.made = 0

\* C4: dirty is false in every state; save(force=False) changes neither the
\* repository nor the Document; the working tree changes only in
\* initialize, write_raw and save(force=True).
C4_OptInPersistence ==
    /\ [](~doc.dirty /\ \A s \in Instances : ~dbIndex[s].dirty)
    /\ [][(lastOp'.name = "save" /\ ~lastOp'.force)
              => (~lastOp'.wrote /\ UNCHANGED <<disk, doc>>)]_vars
    /\ [][file' # file
              => \/ lastOp'.name \in {"initialize", "write_raw"}
                 \/ lastOp'.name = "save" /\ lastOp'.force]_vars

\* C4 witness: save(force=False) right after a set_field left a Document
\* whose data differs from its file.
C4_Witness ==
    /\ lastOp.name = "save"
    /\ ~lastOp.force
    /\ lastOp.after = "set_field"
    /\ doc.id \in DOMAIN file
    /\ ~doc.data.none
    /\ load(file[doc.id]) # doc.data

\* C5: a write_raw or save that wrote the file leaves the staging area, the
\* last commit and the log alone when the working tree then shows no change;
\* otherwise it stages the document's file and adds exactly one commit.
C5_CommitContract ==
    [][(lastOp'.name \in {"write_raw", "save"} /\ lastOp'.wrote)
          => IF StatusClean([Disk EXCEPT !.file = file'])
             THEN UNCHANGED <<staged, head, log>>
             ELSE /\ staged'[doc.id] = file'[doc.id]
                  /\ Len(log') = Len(log) + 1
                  /\ head'[doc.id] = file'[doc.id]]_vars

\* C5 witness: after a write that made a commit, a write made none.
C5_Witness ==
    /\ lastOp.name \in {"write_raw", "save"}
    /\ lastOp.wrote
    /\ lastOp.made = 0
    /\ \E i \in 1..Len(log) : log[i].msg = "Transaction commit" /\ doc.id \in log[i].files

\* ---------------------------------------------------- claims on the store
\* C6: when initialize on an empty or absent directory has ended, index.yml
\* holds the empty catalog, committed, and the history has one commit.
C6_InitializeScenario ==
    lastOp.name = "initialize"
      => /\ IndexId \in DOMAIN file
         /\ load(file[IndexId]) = EmptyCatalog
         /\ head = file
         /\ Len(log) = 1

\* C6 witness: initialize has ended and the catalog is committed.
C6_Witness == lastOp.name = "initialize" /\ IndexId \in DOMAIN head

\* C7, as claimed: a find that is given an id returns the document with
\* that id, whether or not a name is given too.
C7_FindByIdDirect ==
    (lastOp.name = "find" /\ lastOp.did # NoArg)
      => (lastOp.status = "Found" /\ lastOp.val = lastOp.did)

\* The catalog list of a collection as the instance of the last call has it.
CatalogList(coll) == ValueOf(dbIndex[lastOp.inst].data, coll)

\* The document exists, has a title, and its title or its title without
\* diacritics is the name.
TitleMatches(id, name) ==
    /\ id \in DOMAIN file
    /\ HasKey(load(file[id]), "title")
    /\ \/ ValueOf(load(file[id]), "title") = name
       \/ unidecode(ValueOf(load(file[id]), "title")) = name

\* C8, as claimed: with a name only, find returns the first id of the
\* catalog list whose document matches, and not-found when none does; with
\* an id only it returns that id; with neither it returns not-found.
C8_FindByName ==
    lastOp.name = "find"
      => IF lastOp.arg # NoArg /\ lastOp.did = NoArg
         THEN LET l == CatalogList(lastOp.coll)
                  hits == {i \in 1..Len(l) : TitleMatches(l[i], lastOp.arg)}
              IN  IF hits = {}
                  THEN lastOp.status = "NotFound"
                  ELSE /\ lastOp.status = "Found"
                       /\ lastOp.val = l[CHOOSE i \in hits : \A j \in hits : i <= j]
         ELSE IF lastOp.arg = NoArg /\ lastOp.did # NoArg
              THEN lastOp.status = "Found" /\ lastOp.val = lastOp.did
              ELSE IF lastOp.arg = NoArg
                   THEN lastOp.status = "NotFound"
                   ELSE TRUE

\* The ids of the completed new-document operations of a collection, in the
\* order of their creation.
CreatedIn(coll) ==
    LET In(e) == e.coll = coll
        sel == SelectSeq(created, In)
    IN  [i \in 1..Len(sel) |-> sel[i].id]

NoDuplicates(l) == \A i, j \in 1..Len(l) : i # j => l[i] # l[j]

\* Every completed new-document operation went through instance s.
OnlyWriter(s) == \A i \in 1..Len(created) : created[i].inst = s

\* C9: when every new-document operation since initialize went through one
\* store instance, the list of each collection in index.yml, in the last
\* commit and in the instance's cached catalog is the ids created in that
\* collection, in creation order, without duplicates.
C9_CatalogGrowth ==
    \A s \in Instances :
        (repo /\ OnlyWriter(s))
          => \A coll \in Collections :
                /\ ValueOf(load(file[IndexId]), coll) = CreatedIn(coll)
                /\ ValueOf(load(head[IndexId]), coll) = CreatedIn(coll)
                /\ (dbIndex[s].bound /\ ~dbIndex[s].data.none)
                      => ValueOf(dbIndex[s].data, coll) = CreatedIn(coll)
                /\ NoDuplicates(CreatedIn(coll))

\* C9 witness: two documents of one collection were created through one
\* instance, which holds the catalog in its cache.
C9_Witness ==
    \E s \in Instances :
        /\ Len(created) >= 2
        /\ OnlyWriter(s)
        /\ created[1].coll = created[2].coll
        /\ dbIndex[s].bound

\* The ids the catalog of a tree lists, over all collections.
Listed(tree) ==
    IF IndexId \notin DOMAIN tree \/ load(tree[IndexId]).none
    THEN {}
    ELSE UNION {{ValueOf(load(tree[IndexId]), coll)[i] :
                    i \in 1..Len(ValueOf(load(tree[IndexId]), coll))} :
                coll \in Collections}

\* C10: every id the catalog file lists has a document file and every id
\* the committed catalog lists has a committed document file, also after
\* interruptions; and with no operation interrupted and one writer, the
\* catalog lists exactly the ids that have a document file.
C10_CatalogFileConsistency ==
    /\ Listed(file) \subseteq DOMAIN file
    /\ Listed(head) \subseteq DOMAIN head
    /\ (~interrupted /\ \E s \in Instances : OnlyWriter(s))
          => Listed(file) = DOMAIN file \cap DocIds

\* C10 witness: after an interruption and a completed operation, a document
\* file exists that the catalog does not list.
C10_Witness ==
    /\ interrupted
    /\ created # <<>>
    /\ (DOMAIN file \cap DocIds) \ Listed(file) # {}

\* ---------------------------------------------------- claims on the units
\* The definition of a symbol in units.yml.
DefOf(symbol) ==
    unitDefs[CHOOSE i \in 1..Len(unitDefs) : unitDefs[i].symbol = symbol]

\* What the link of a definition is after load: None stays None, a named
\* link is the pair of the Unit the name resolves to and the factor.
Resolved(link) ==
    IF link.kind = "None" THEN NoLink ELSE Wired(UNITS[link.unit], link.C)

\* C11, as claimed: load_units on definitions whose targets are all defined
\* ends without error, the symbol and every alias of a unit resolve to its
\* Unit, and every link is the (Unit, factor) pair of its definition.
C11_UnitRegistryLoad ==
    call.name = "load_units"
      => /\ call.status = "ok"
         /\ \A i \in 1..Len(unitDefs) :
               /\ \A n \in {unitDefs[i].symbol} \cup Names(unitDefs[i].aliases) :
                     n \in DOMAIN UNITS /\ UNITS[n] = unitDefs[i].symbol
               /\ unitObj[unitDefs[i].symbol].raising = Resolved(unitDefs[i].raise)
               /\ unitObj[unitDefs[i].symbol].lowering = Resolved(unitDefs[i].lower)

\* C12: raise_ on an Amount whose unit has a raising link returns a new
\* Amount of the value times the factor in the target unit, and fails with
\* AssertionError, returning nothing, when there is no link; lower likewise
\* with the lowering link; neither changes the Amount it is called on; and
\* can_be_raised / can_be_lowered tell whether the unit's definition has
\* the link.
C12_SingleStepConversion ==
    [][/\ call'.name = "raise_"
            => LET link == DefOf(amount.unit).raise
               IN  /\ amount' = amount
                   /\ IF link.kind = "None"
                      THEN call'.status = "AssertionError" /\ call'.result = NoAmount
                      ELSE /\ call'.status = "ok"
                           /\ call'.result =
                                 Amount(Mul(amount.amount, link.C), UNITS[link.unit])
       /\ call'.name = "lower"
            => LET link == DefOf(amount.unit).lower
               IN  /\ amount' = amount
                   /\ IF link.kind = "None"
                      THEN call'.status = "AssertionError" /\ call'.result = NoAmount
                      ELSE /\ call'.status = "ok"
                           /\ call'.result =
                                 Amount(Mul(amount.amount, link.C), UNITS[link.unit])
       /\ call'.name = "can_be_raised"
            => call'.flag = (DefOf(amount.unit).raise.kind # "None")
       /\ call'.name = "can_be_lowered"
            => call'.flag = (DefOf(amount.unit).lower.kind # "None")]_vars

\* C12 witness: raise_ on 250 g returned 25 dkg and the 250 g are still
\* held.
C12_Witness ==
    /\ call.name = "raise_"
    /\ call.status = "ok"
    /\ amount = Amount(Float(250), "g")
    /\ call.result = Amount(Float(25), "dkg")

\* C13, as claimed: the raise loop of scale always comes to its end, and the
\* Amount it ends with is of a unit that cannot be raised.
C13_FullRaiseTermination ==
    /\ (pc.at = "raise") ~> (pc.at # "raise")
    /\ [][(pc.at = "raise" /\ pc'.at # "raise")
             => DefOf(amount.unit).raise.kind = "None"]_vars

\* The Amount (v, u) raised along the raise links of the definitions, as far
\* as they go.
RECURSIVE Raised(_, _)
Raised(v, u) ==
    IF DefOf(u).raise.kind = "None"
    THEN Amount(v, u)
    ELSE Raised(Mul(v, DefOf(u).raise.C), DefOf(u).raise.unit)

\* v / portions * adults
Scaled(v, portions, adults) == Mul(Div(v, Float(portions)), Float(adults))

\* The Amount an ingredient holds.
Held(ing) == Amount(ing.v, ing.u)

\* units.yml with the chain g -> dkg (0.1) -> kg (0.01).
ChainDefs == WeightDefs("dkg", "kg", "", FALSE, FALSE)

\* A call of scale returns in this step.
ScaleReturns == call.status = "running" /\ call'.name = "scale" /\ call'.status = "ok"

\* C14: when scale returns, every ingredient whose amount is written
\* '<v> <u>' holds the Amount of v / portions * adults times the factor of
\* each raise link from u to the top of its chain, in the unit at the top;
\* with the chain g -> dkg -> kg, 200 g at portions 4 for 8 adults is
\* 0.4 kg and 250 g unscaled is 0.25 kg.
C14_ScalingResult ==
    [][ScaleReturns
          => \A i \in 1..Len(recipeFile.ingredients) :
                LET f == recipeFile.ingredients[i]
                    ing == recipe'.data.ingredients[i]
                IN  f.kind = "str"
                      => /\ ing.kind = "Amount"
                         /\ Held(ing) = Raised(Scaled(f.v, recipeFile.portions, pc.adults), f.u)
                         /\ (unitDefs = ChainDefs /\ f.v = Float(200)
                               /\ recipeFile.portions = 4 /\ pc.adults = 8)
                               => Held(ing) = Amount(<<2, 5>>, "kg")
                         /\ (unitDefs = ChainDefs /\ f.v = Float(250)
                               /\ recipeFile.portions = pc.adults)
                               => Held(ing) = Amount(<<1, 4>>, "kg")]_vars

\* C14 witness: with the chain g -> dkg -> kg, scale has returned on a
\* recipe of 4 portions whose first ingredient was '200 g' and now holds
\* 0.4 kg.
C14_Witness ==
    /\ call.name = "scale"
    /\ call.status = "ok"
    /\ unitDefs = ChainDefs
    /\ recipeFile.portions = 4
    /\ recipeFile.ingredients[1] = Ingredient("str", Float(200), "g")
    /\ recipe.data.ingredients[1] = Ingredient("Amount", <<2, 5>>, "kg")

\* C18, as claimed: every call of scale returns, also one on a Recipe that
\* is scaled already; and an amount written '<v> <u>' that the Recipe holds
\* as an Amount is the result of one scaling of the file's amount.
C18_NoDoubleScaling ==
    /\ [][(call.status = "running" /\ call'.status # "running")
             => (call'.name = "scale" /\ call'.status = "ok")]_vars
    /\ [](\A i \in 1..Len(recipe.data.ingredients) :
             (recipeFile.ingredients[i].kind = "str"
                /\ recipe.data.ingredients[i].kind = "Amount")
               => \E a \in Adults :
                     Held(recipe.data.ingredients[i]) =
                        Raised(Scaled(recipeFile.ingredients[i].v, recipeFile.portions, a),
                               recipeFile.ingredients[i].u))

\* C19, as claimed: when scale returns, every ingredient that has an amount
\* holds the quantity times adults / portions, an integer amount in pcs and
\* a '<v> <u>' amount raised from u; an ingredient without an amount is as
\* it was.
C19_ScalingCoversEveryForm ==
    [][ScaleReturns
          => \A i \in 1..Len(recipeFile.ingredients) :
                LET f == recipeFile.ingredients[i]
                    ing == recipe'.data.ingredients[i]
                    q == Scaled(f.v, recipeFile.portions, pc.adults)
                IN  /\ f.kind = "absent" => ing = f
                    /\ f.kind = "str" => Held(ing) = Raised(q, f.u)
                    /\ f.kind = "int" => Held(ing) = Amount(q, "pcs")]_vars

\* ------------------------------------------------- claims on validation
\* C15, as claimed: Recipe.validate returns True exactly for an object that
\* has a title whose value is a string, Menu.validate for every object; for
\* all other data they return the ValidationError with its path and message.
C15_ValidationAsValue ==
    lastOp.name = "validate"
      => LET good == IF lastOp.coll = "recipes"
                     THEN candidate.type = "object" /\ candidate.props.title = "string"
                     ELSE candidate.type = "object"
         IN  /\ lastOp.status = (IF good THEN "True" ELSE "ValidationError")
             /\ ~good => lastOp.key # ""

\* ----------------------------------------- claims on caches and failures
\* The catalog as instance s has it: its cached data, or what index.yml
\* holds when it has none cached.
CatalogOf(s) ==
    IF dbIndex[s].bound /\ ~dbIndex[s].data.none THEN dbIndex[s].data ELSE load(file[IndexId])

C17_InvalidationOnFailedCommit ==
    [][(lastOp.name = "write_raw" /\ lastOp.status = "CalledProcessError"
          /\ lastOp'.name = "get_field")
          => LET r == Lookup(load(file[doc.id]), lastOp'.key)
             IN  lastOp'.status = r.status /\ lastOp'.val = r.val]_vars

\* C20, as claimed: DB.initialize on a fresh directory runs to its end; no
\* git call of it fails.
C20_InitializeCompletes ==
    lastOp.name = "initialize" => lastOp.status = "ok"

\* ------------------------------------------------------------ commit scope
\* The texts written in the runs on the scope of a commit.
ScopeTexts == {<<Entry("title", <<"s">>, TRUE)>>, <<Entry("title", <<"S_CARON">>, TRUE)>>}

\* Callers write two documents through the Document interface; a git call
\* of a write may fail.
NextScope ==
    \/ Initialize
    \/ \E id \in HandleIds : DocNew(id)
    \/ \E id \in HandleIds : DocGet(id)
    \/ \E text \in ScopeTexts : WriteRaw(text)
    \/ Save(TRUE)
    \/ \E text \in ScopeTexts, n \in 1..2 : WriteRawFailed(text, n)

SpecScope == Init /\ [][NextScope]_vars

\* C21: a write_raw or save on a document that wrote the file and returned
\* leaves no uncommitted change in the store's directory, and the commit it
\* made records the file of that document and no other file.
C21_CommitScope ==
    [][(lastOp'.name \in {"write_raw", "save"} /\ lastOp'.wrote /\ lastOp'.status = "ok")
          => /\ file' = staged' /\ staged' = head'
             /\ Len(log') > Len(log) => log'[Len(log')].files = {doc.id}]_vars

\* ------------------------------------------- the edit and new commands
\* load_yaml: an exception for a text the parser rejects, else the data.
load_yaml(text) ==
    IF \E i \in 1..Len(text) : text[i].kind = "broken"
    THEN [raised |-> TRUE, data |-> NoneData]
    ELSE [raised |-> FALSE, data |-> load(text)]

\* Mutant of edit_check: whatever the editor left is taken as valid.
edit_check_lax(coll, text) == "True"

\* edit_yaml, one turn of its loop after the editor: validation_result.
edit_check(coll, text) ==
    LET y == load_yaml(text)
    IN  IF y.raised
        THEN "it is broken"
        ELSE IF validate(coll, y.data) THEN "True" ELSE "invalid value"

\* The template of cmd_new_recipe and cmd_new_menu: comments and keys
\* without a value.
Template == <<CommentLine, Entry("title", Null, FALSE), Entry("tags", Null, FALSE)>>

\* What the user leaves in the editor: a broken text, nothing, the template
\* as it was, a title, tags without a title.
SessionTexts ==
    {<<BrokenLine>>, <<>>, Template,
     <<Entry("title", <<"s">>, FALSE)>>, <<Entry("tags", <<"s">>, FALSE)>>}

\* No command is in its editor loop.
Ended == session.at \in {"idle", "done", "declined"}

\* cmd_new_document up to the first click.edit: the store is opened and the
\* template is written to the temporary file.
CmdNewBegin(s, coll) ==
    /\ repo
    /\ Ended
    /\ Issued < MaxDocs
    /\ dbIndex' = [dbIndex EXCEPT ![s] = NoDocument]
    /\ session' = [NoSession EXCEPT !.cmd = "cmd_new_document", !.inst = s, !.coll = coll,
                                    !.text = Template, !.at = "editor"]
    /\ lastOp' = [StoreOp("cmd_new_document", s) EXCEPT !.coll = coll, !.status = "editing"]
    /\ UNCHANGED <<disk, doc, created, interrupted,
                   unitDefs, UNITS, unitObj, amount, recipeFile, recipe, pc, call, candidate>>

\* cmd_edit_document up to the first click.edit, called by cmd_edit_recipe
\* or cmd_edit_menu with the Document of the id: the store is opened and
\* document.raw is written to the temporary file; reading the raw text of a
\* document without a file raises IOError.
CmdEditBegin(s, coll, id) ==
    /\ repo
    /\ Ended
    /\ Len(log) < MaxCommits + MaxDocs
    /\ dbIndex' = [dbIndex EXCEPT ![s] = NoDocument]
    /\ IF id \in DOMAIN file
       THEN /\ session' = [NoSession EXCEPT !.cmd = "cmd_edit_document", !.inst = s,
                                            !.coll = coll, !.did = id,
                                            !.text = file[id], !.at = "editor"]
            /\ lastOp' = [StoreOp("cmd_edit_document", s) EXCEPT
                             !.coll = coll, !.did = id, !.status = "editing"]
       ELSE /\ session' = NoSession
            /\ lastOp' = [StoreOp("cmd_edit_document", s) EXCEPT
                             !.coll = coll, !.did = id, !.status = "IOError"]
    /\ UNCHANGED <<disk, doc, created, interrupted,
                   unitDefs, UNITS, unitObj, amount, recipeFile, recipe, pc, call, candidate>>

\* The user leaves the editor with text in the temporary file: edit_yaml
\* loads and validates it.  A text that fails makes the command ask; a text
\* that passes is returned, and the command runs to its end:
\* cmd_new_document takes an id, writes the document and enters it in the
\* catalog, cmd_edit_document writes the document.
EditorSave(text) ==
    /\ session.at = "editor"
    /\ LET r == edit_check(session.coll, text)
           s == session.inst
           n == new_document(Disk, index(s), session.coll, NextId, text)
           w == set_raw(get_document(session.did), Disk, text)
       IN  IF r # "True"
           THEN /\ session' = [session EXCEPT !.text = text, !.at = "confirm"]
                /\ lastOp' = [StoreOp(session.cmd, s) EXCEPT
                                 !.coll = session.coll, !.did = session.did, !.status = r]
                /\ UNCHANGED <<file, staged, head, log, dbIndex, created>>
           ELSE IF session.cmd = "cmd_new_document"
                THEN /\ SetDisk(n.D)
                     /\ dbIndex' = [dbIndex EXCEPT ![s] = n.index]
                     /\ created' = IF n.status = "ok"
                                   THEN Append(created, [inst |-> s, coll |-> session.coll,
                                                         id |-> NextId])
                                   ELSE created
                     /\ session' = [session EXCEPT !.text = text, !.did = NextId,
                                                   !.at = "done"]
                     /\ lastOp' = [StoreOp(session.cmd, s) EXCEPT
                                      !.coll = session.coll, !.did = NextId,
                                      !.status = n.status]
                ELSE /\ SetDisk(w.D)
                     /\ session' = [session EXCEPT !.text = text, !.at = "done"]
                     /\ lastOp' = [StoreOp(session.cmd, s) EXCEPT
                                      !.coll = session.coll, !.did = session.did,
                                      !.status = w.status]
                     /\ UNCHANGED <<dbIndex, created>>
    /\ UNCHANGED <<repo, doc, interrupted,
                   unitDefs, UNITS, unitObj, amount, recipeFile, recipe, pc, call, candidate>>

\* The user answers `Found errors. Y to re-edit, N to drop changes`: with Y
\* the loop goes back to the editor, with N edit_yaml returns None and the
\* command ends.
Confirm(answer) ==
    /\ session.at = "confirm"
    /\ session' = IF answer
                  THEN [session EXCEPT !.at = "editor", !.retried = TRUE]
                  ELSE [session EXCEPT !.at = "declined"]
    /\ lastOp' = [StoreOp(session.cmd, session.inst) EXCEPT
                     !.coll = session.coll, !.did = session.did,
                     !.status = IF answer THEN "re-edit" ELSE "no changes"]
    /\ UNCHANGED <<disk, dbIndex, doc, created, interrupted,
                   unitDefs, UNITS, unitObj, amount, recipeFile, recipe, pc, call, candidate>>

NextEdit ==
    \/ Initialize
    \/ \E coll \in Collections : CmdNewBegin("A", coll)
    \/ \E coll \in Collections, id \in HandleIds : CmdEditBegin("A", coll, id)
    \/ \E text \in SessionTexts : EditorSave(text)
    \/ \E answer \in BOOLEAN : Confirm(answer)

SpecEdit == Init /\ [][NextEdit]_vars

\* C22: in a step of the edit or new-document command, a document file gets
\* only the text the editor was left with in this turn of the loop, which
\* parses and passes the validator of the document's class; a text that is
\* broken or invalid makes the command ask, the answer Y leads back to the
\* editor; and as long as the command has not got a valid text, and when the
\* user answers N, no file is written, no commit is made, no id is taken and
\* the catalog stays as it was.
C22_OnlyValidatedTextStored ==
    [][lastOp'.name \in {"cmd_new_document", "cmd_edit_document"}
          => /\ \A id \in DOMAIN file' \ {IndexId} :
                   (id \notin DOMAIN file \/ file'[id] # file[id])
                      => /\ session.at = "editor"
                         /\ id = session'.did
                         /\ file'[id] = session'.text
                         /\ ~load_yaml(file'[id]).raised
                         /\ validate(session'.coll, load_yaml(file'[id]).data)
             /\ (/\ session.at = "editor"
                 /\ \/ load_yaml(session'.text).raised
                    \/ ~validate(session'.coll, load_yaml(session'.text).data))
                   => session'.at = "confirm"
             /\ (session.at = "confirm" /\ lastOp'.status = "re-edit")
                   => session'.at = "editor"
             /\ session'.at \in {"editor", "confirm", "declined", "idle"}
                   => /\ UNCHANGED <<file, staged, head, log, created>>
                      /\ dbIndex'[lastOp'.inst] \in {dbIndex[lastOp'.inst], NoDocument}]_vars

\* C22 witness: a new-document command whose first text was refused and
\* whose user chose to re-edit has written the text of its last turn.
C22_Witness ==
    /\ session.cmd = "cmd_new_document"
    /\ session.at = "done"
    /\ session.retried
    /\ lastOp.status = "ok"
    /\ session.did \in DOMAIN file
    /\ file[session.did] = session.text
    /\ \E i \in 1..Len(created) : created[i].id = session.did

====
